---------------------------- MODULE Spec2Model ----------------------------
(***************************************************************************)
(* A model of create_mcp_server/__init__.py: the command `main` that       *)
(* checks the uv version, validates a project name, creates the project    *)
(* with uv, copies the template and optionally registers the project in    *)
(* the Claude.app configuration file.                                      *)
(*                                                                         *)
(* Strings the program inspects character by character (project names,     *)
(* path components) are sequences of one-character strings.                *)
(***************************************************************************)
EXTENDS Integers, Sequences, FiniteSets, TLC

(***************************************************************************)
(* Bounds of the model.                                                    *)
(***************************************************************************)
MaxNameLen == 3
MaxMajor == 1
MaxMinor == 5
MaxPatch == 11
MaxCalls == 2

(***************************************************************************)
(* Characters.  Letter, digit, the three punctuation marks the name rule   *)
(* allows, a space, a tab (whitespace that is not a space) and a          *)
(* non-ASCII letter (str.isalnum() is true of it, str.isascii() is not).   *)
(***************************************************************************)
Letters == {"a", "b"}
DigitChars == {"1"}
Marks == {"_", "-", "."}
Space == " "
Tab == "\t"
NonAscii == "U+00E9"
Alphabet == Letters \cup DigitChars \cup Marks \cup {Space, Tab, NonAscii}

isascii(c) == c /= NonAscii
isalnum(c) == c \in Letters \cup DigitChars \cup {NonAscii}

(* All strings over `chars` of length at most n. *)
StringsUpTo(chars, n) == UNION {[1..k -> chars] : k \in 0..n}

(***************************************************************************)
(* check_package_name(name): the code's four tests in the code's order.    *)
(* The result holds the returned bool and the message echoed to stderr.    *)
(***************************************************************************)
startswith(name, cs) == Len(name) > 0 /\ name[1] \in cs
endswith(name, cs) == Len(name) > 0 /\ name[Len(name)] \in cs

(* A check that lacks the last test. *)
check_package_name_NoEdgeTest(name) ==
    IF name = <<>>
      THEN [ok |-> FALSE, msg |-> "cannot be empty"]
    ELSE IF \E i \in 1..Len(name) : name[i] = Space
      THEN [ok |-> FALSE, msg |-> "must not contain spaces"]
    ELSE IF ~(\A i \in 1..Len(name) :
                 isascii(name[i]) /\ (isalnum(name[i]) \/ name[i] \in Marks))
      THEN [ok |-> FALSE, msg |-> "must consist of ASCII letters, digits, underscores, hyphens, and periods"]
    ELSE [ok |-> TRUE, msg |-> "none"]

check_package_name(name) ==
    IF name = <<>>
      THEN [ok |-> FALSE, msg |-> "cannot be empty"]
    ELSE IF \E i \in 1..Len(name) : name[i] = Space
      THEN [ok |-> FALSE, msg |-> "must not contain spaces"]
    ELSE IF ~(\A i \in 1..Len(name) :
                 isascii(name[i]) /\ (isalnum(name[i]) \/ name[i] \in Marks))
      THEN [ok |-> FALSE, msg |-> "must consist of ASCII letters, digits, underscores, hyphens, and periods"]
    ELSE IF startswith(name, Marks) \/ endswith(name, Marks)
      THEN [ok |-> FALSE, msg |-> "must not start or end with an underscore, hyphen, or period"]
    ELSE [ok |-> TRUE, msg |-> "none"]

(***************************************************************************)
(* check_uv_version.  What `uv --version` does is a record: kind is        *)
(* "notfound" (FileNotFoundError), "error" (CalledProcessError) or "ok";   *)
(* for "ok", matches tells whether stdout matches r"uv (\d+\.\d+\.\d+)"    *)
(* and ver is the matched major.minor.patch as numbers.                    *)
(***************************************************************************)
MIN_UV_VERSION == <<0, 4, 10>>

(* packaging.version.parse: the release tuple of a major.minor.patch. *)
parse(ver) == [i \in 1..Len(ver) |-> ver[i]]

(* a >= b on release tuples: the first differing component decides. *)
RECURSIVE TupleGE(_, _, _)
TupleGE(a, b, i) ==
    IF i > Len(a) \/ i > Len(b) THEN Len(a) >= Len(b)
    ELSE IF a[i] /= b[i] THEN a[i] > b[i]
    ELSE TupleGE(a, b, i + 1)

(* A comparison with > in place of >=. *)
VersionGE_Strict(a, b) == parse(a) /= parse(b) /\ TupleGE(parse(a), parse(b), 1)

VersionGE(a, b) == TupleGE(parse(a), parse(b), 1)

None == [present |-> FALSE, text |-> <<>>]
Some(text) == [present |-> TRUE, text |-> text]

(* The value check_uv_version returns when it returns (kind /= "error"):   *)
(* the stripped stdout when it matches and the matched number is at least  *)
(* required_version, None otherwise.                                       *)
check_uv_version(out, required_version) ==
    IF out.kind = "notfound" THEN None
    ELSE IF out.matches /\ VersionGE(out.ver, required_version) THEN Some(out.ver)
    ELSE None

Versions == (0..MaxMajor) \X (0..MaxMinor) \X (0..MaxPatch)

UvOutcomes(versions) ==
    {[kind |-> "notfound", matches |-> FALSE, ver |-> <<0, 0, 0>>],
     [kind |-> "error", matches |-> FALSE, ver |-> <<0, 0, 0>>],
     [kind |-> "ok", matches |-> FALSE, ver |-> <<0, 0, 0>>]}
    \cup {[kind |-> "ok", matches |-> TRUE, ver |-> v] : v \in versions}


(***************************************************************************)
(* Paths (pathlib.Path): absolute or relative, a sequence of components.   *)
(***************************************************************************)
Cwd == [abs |-> TRUE, parts |-> << <<"h">> >>]

(* Path.cwd() / name *)
JoinPath(base, component) == [abs |-> base.abs, parts |-> Append(base.parts, component)]

IsPrefix(s, t) == Len(s) <= Len(t) /\ \A i \in 1..Len(s) : s[i] = t[i]

(* path.relative_to(other) raises ValueError unless other is an ancestor   *)
(* of path (or path itself) and both are absolute or both relative.        *)
relative_to_ok(path, other) == path.abs = other.abs /\ IsPrefix(other.parts, path.parts)

(* str(path): the components joined by the separator. *)
RECURSIVE JoinParts(_)
JoinParts(parts) ==
    IF parts = <<>> THEN <<>>
    ELSE IF Len(parts) = 1 THEN parts[1]
    ELSE parts[1] \o <<"/">> \o JoinParts(Tail(parts))

str(path) == IF path.abs THEN <<"/">> \o JoinParts(path.parts) ELSE JoinParts(path.parts)

(* Paths a user gives with --path or at the path prompt: relative, *)
(* absolute under the working directory, absolute elsewhere.       *)
UserPaths ==
    {[abs |-> FALSE, parts |-> << <<"p">> >>],
     [abs |-> TRUE, parts |-> << <<"h">>, <<"p">> >>],
     [abs |-> TRUE, parts |-> << <<"t">>, <<"p">> >>]}

(***************************************************************************)
(* JSON.  A file's text is a record: form is "object" or "array" (valid    *)
(* JSON with that root), "malformed" or "empty" (json.loads raises); obj   *)
(* is the root object, a function from top-level keys to values.  A value  *)
(* is a record: kind is "object", "array", "null" or "string", and map     *)
(* holds an object's members (server name -> entry).                       *)
(***************************************************************************)
EmptyMap == [n \in {} |-> 0]
JsonObject(map) == [kind |-> "object", map |-> map]
JsonOther(kind) == [kind |-> kind, map |-> EmptyMap]

Text(form, obj) == [form |-> form, obj |-> obj]
NoFile == [exists |-> FALSE, text |-> Text("empty", EmptyMap)]
File(text) == [exists |-> TRUE, text |-> text]

(* json.loads(text): hands back the root, or raises (ok = FALSE). *)
loads(text) ==
    [ok |-> text.form \in {"object", "array"}, root |-> text.form, obj |-> text.obj]

(* json.dumps(config, indent=2) of a dict. *)
dumps(obj) == Text("object", obj)

(* The entry update_claude_config stores under the project name. *)
NewEntry(project_name, project_path) ==
    [command |-> "uv",
     args |-> << <<"--directory">>, str(project_path), <<"run">>, project_name >>]

(* d[key] = value on a dict. *)
SetItem(d, key, value) == [k \in DOMAIN d \cup {key} |-> IF k = key THEN value ELSE d[k]]

(* An insertion that rebuilds mcpServers with the new entry alone. *)
Insert_Replaces(servers, project_name, entry) == [k \in {project_name} |-> entry]

(* config["mcpServers"][project_name] = entry, lines 75-78. *)
Insert(servers, project_name, entry) == SetItem(servers, project_name, entry)


(***************************************************************************)
(* State.                                                                  *)
(***************************************************************************)
VARIABLES
    pc,            \* where main is: "start" .. "summary", or "exited"
    status,        \* the status main ended with (read when pc = "exited")
    raised,        \* the uncaught exception that ended the run, or "none"
    argName,       \* --name: [given, val]
    argPath,       \* --path: [given, val]
    claudeapp,     \* --claudeapp / --no-claudeapp
    min_uv_version,\* the module's MIN_UV_VERSION
    uv,            \* what `uv --version` did
    uvResult,      \* what check_uv_version returned
    name,          \* main's name
    nameCheck,     \* what check_package_name(name) returned and echoed
    prompts,       \* how many times the project name was asked for
    project_path,  \* main's project_path
    disk,          \* the project on disk: directory, uv init, uv add, template
    steps,         \* the operations started, in order
    summary,       \* whether the closing "Created project" lines were echoed
    platform,      \* sys.platform
    claude_dir,    \* whether the Claude config directory exists
    config_file,   \* claude_desktop_config.json: [exists, text]
    original,      \* config_file as it was when the run began
    confirmed,     \* the answer to "install the server into Claude.app now?"
    calls          \* the calls of update_claude_config so far

vars == <<pc, status, raised, argName, argPath, claudeapp, min_uv_version, uv,
          uvResult, name, nameCheck, prompts, project_path, disk, steps, summary,
          platform, claude_dir, config_file, original, confirmed, calls>>

cliVars == <<argName, argPath, claudeapp>>
uvVars == <<min_uv_version, uv, uvResult>>
nameVars == <<name, nameCheck, prompts>>
claudeEnv == <<platform, claude_dir, original>>
claudeVars == <<config_file, confirmed, calls>>

(***************************************************************************)
(* Inputs.                                                                 *)
(***************************************************************************)
Names == StringsUpTo(Alphabet, MaxNameLen)

(* Names given to a whole run of main: empty, accepted, rejected. *)
RunNames == {<<>>, <<"a">>, <<"b">>, <<"-", "a">>, <<"a", " ", "b">>}

NoArg(val) == [given |-> FALSE, val |-> val]
Arg(val) == [given |-> TRUE, val |-> val]

Platforms == {"win32", "darwin", "linux"}

(* An entry some other tool wrote to mcpServers. *)
ForeignEntry == [command |-> "node", args |-> << <<"x">> >>]

ServerMaps(names) ==
    UNION {[D -> {ForeignEntry}] : D \in SUBSET names}

(* Values found under "mcpServers". *)
ServersValues(names) ==
    {JsonOther("null"), JsonOther("array")} \cup {JsonObject(m) : m \in ServerMaps(names)}

(* Root objects: "theme" present or not, "mcpServers" present or not. *)
RootObjects(names) ==
    LET themes == {EmptyMap, [k \in {"theme"} |-> JsonOther("string")]}
    IN  themes \cup {SetItem(t, "mcpServers", v) : t \in themes, v \in ServersValues(names)}

ConfigFiles(names) ==
    {NoFile, File(Text("malformed", EmptyMap)), File(Text("array", EmptyMap))}
    \cup {File(Text("object", o)) : o \in RootObjects(names)}

NoDisk == [dir |-> FALSE, init |-> FALSE, mcp |-> FALSE, template |-> "none"]

(* The state before main runs, for the given inputs. *)
Start(pc0, an, ap, ca, mv, n, pf, cd, cf) ==
    /\ pc = pc0
    /\ status = 0
    /\ raised = "none"
    /\ argName = an
    /\ argPath = ap
    /\ claudeapp = ca
    /\ min_uv_version = mv
    /\ uv = [kind |-> "notrun", matches |-> FALSE, ver |-> <<0, 0, 0>>]
    /\ uvResult = None
    /\ name = n
    /\ nameCheck = [ok |-> FALSE, msg |-> "unchecked"]
    /\ prompts = 0
    /\ project_path = Cwd
    /\ disk = NoDisk
    /\ steps = <<>>
    /\ summary = FALSE
    /\ platform = pf
    /\ claude_dir = cd
    /\ config_file = cf
    /\ original = cf
    /\ confirmed = "not asked"
    /\ calls = <<>>

Init ==
    \E an \in {NoArg(<<>>)} \cup {Arg(n) : n \in RunNames},
       ap \in {NoArg(Cwd)} \cup {Arg(p) : p \in UserPaths},
       ca \in BOOLEAN, pf \in Platforms, cd \in BOOLEAN,
       cf \in ConfigFiles({<<"a">>}) :
        Start("start", an, ap, ca, MIN_UV_VERSION, <<>>, pf, cd, cf)

(***************************************************************************)
(* Ways a run ends.                                                        *)
(***************************************************************************)
(* sys.exit(code), or main returning code. *)
Exit(code) == pc' = "exited" /\ status' = code /\ raised' = "none"

(* An exception nothing catches: the interpreter prints it and exits 1. *)
Raise(exc) == pc' = "exited" /\ status' = 1 /\ raised' = exc

Goto(label) == pc' = label /\ UNCHANGED <<status, raised>>

(***************************************************************************)
(* main, line 171: ensure_uv_installed().                                  *)
(***************************************************************************)
ensure_uv_installed(outs) ==
    /\ pc = "start"
    /\ \E out \in outs :
        /\ uv' = out
        /\ min_uv_version' = min_uv_version
        /\ steps' = Append(steps, "version")
        /\ IF out.kind = "error"
             THEN uvResult' = None /\ Exit(1)
             ELSE /\ uvResult' = check_uv_version(out, min_uv_version)
                  /\ IF ~uvResult'.present THEN Exit(1) ELSE Goto("name")
    /\ UNCHANGED <<cliVars, nameVars, project_path, disk, summary, claudeEnv, claudeVars>>

(***************************************************************************)
(* main, line 177: the name is --name, or asked for once.  click.prompt    *)
(* hands back a non-empty string.                                          *)
(***************************************************************************)
ProvideName ==
    /\ pc = "name"
    /\ IF argName.given
         THEN name' = argName.val /\ prompts' = prompts
         ELSE /\ \E n \in RunNames \ {<<>>} : name' = n
              /\ prompts' = prompts + 1
    /\ Goto("validate")
    /\ UNCHANGED <<cliVars, uvVars, nameCheck, project_path, disk, steps, summary,
                   claudeEnv, claudeVars>>

(* A main that returns 0 on a rejected name. *)
ValidateName_Returns0 ==
    /\ pc = "validate"
    /\ nameCheck' = check_package_name(name)
    /\ steps' = Append(steps, "validate")
    /\ IF ~nameCheck'.ok THEN Exit(0) ELSE Goto("path")
    /\ UNCHANGED <<cliVars, uvVars, name, prompts, project_path, disk, summary,
                   claudeEnv, claudeVars>>

(* A main that goes on to create the project whatever the check says. *)
ValidateName_GoesOn ==
    /\ pc = "validate"
    /\ nameCheck' = check_package_name(name)
    /\ steps' = Append(steps, "validate")
    /\ Goto("path")
    /\ UNCHANGED <<cliVars, uvVars, name, prompts, project_path, disk, summary,
                   claudeEnv, claudeVars>>

(* A main that asks for the name again when it is rejected. *)
ValidateName_AsksAgain ==
    /\ pc = "validate"
    /\ nameCheck' = check_package_name(name)
    /\ steps' = Append(steps, "validate")
    /\ IF ~nameCheck'.ok THEN Goto("name") ELSE Goto("path")
    /\ UNCHANGED <<cliVars, uvVars, name, prompts, project_path, disk, summary,
                   claudeEnv, claudeVars>>

(***************************************************************************)
(* main, lines 179-184: a rejected name ends the run with 1.  (name is     *)
(* never None at line 179: it is --name or what the prompt handed back.)   *)
(***************************************************************************)
ValidateName ==
    /\ pc = "validate"
    /\ nameCheck' = check_package_name(name)
    /\ steps' = Append(steps, "validate")
    /\ IF ~nameCheck'.ok THEN Exit(1) ELSE Goto("path")
    /\ UNCHANGED <<cliVars, uvVars, name, prompts, project_path, disk, summary,
                   claudeEnv, claudeVars>>

(***************************************************************************)
(* main, lines 186-196: --path, or <cwd>/<name> unless the user declines   *)
(* it and enters another path.                                             *)
(***************************************************************************)
ResolvePath ==
    /\ pc = "path"
    /\ IF argPath.given
         THEN project_path' = argPath.val
         ELSE \E correct \in BOOLEAN :
                IF correct THEN project_path' = JoinPath(Cwd, name)
                ELSE \E p \in UserPaths : project_path' = p
    /\ Goto("mkdir")
    /\ UNCHANGED <<cliVars, uvVars, nameVars, disk, steps, summary, claudeEnv, claudeVars>>


(***************************************************************************)
(* get_claude_config_path() is not None, which is has_claude_app().        *)
(***************************************************************************)
get_claude_config_path == platform \in {"win32", "darwin"} /\ claude_dir

has_claude_app == get_claude_config_path

(***************************************************************************)
(* update_claude_config(project_name, project_path).  io is what the file  *)
(* system does during the call: "ok", "read_error" (read_text raises),     *)
(* "open_error" (write_text cannot open the file), "write_error"           *)
(* (write_text opened the file for writing, which truncates it, and the    *)
(* write then failed).  The result holds the returned bool, the message    *)
(* echoed, whether the file was read, and the file after the call.         *)
(***************************************************************************)
IO == {"ok", "read_error", "open_error", "write_error"}

Returned(result, msg, read, file) ==
    [result |-> result, msg |-> msg, read |-> read, file |-> file]

(* config["mcpServers"] after lines 67-68, for a dict config. *)
Servers(config) ==
    IF "mcpServers" \in DOMAIN config THEN config["mcpServers"] ELSE JsonObject(EmptyMap)

update_claude_config(project_name, proj_path, io) ==
    LET failed(file) == Returned(FALSE, "Failed to update", TRUE, file)
        parsed == loads(config_file.text)
        servers == Servers(parsed.obj)
        config == SetItem(parsed.obj, "mcpServers",
                          JsonObject(Insert(servers.map, project_name,
                                            NewEntry(project_name, proj_path))))
    IN  IF ~get_claude_config_path THEN Returned(FALSE, "none", FALSE, config_file)
        ELSE IF ~config_file.exists THEN Returned(FALSE, "none", FALSE, config_file)
        ELSE IF io = "read_error" THEN failed(config_file)
        ELSE IF ~parsed.ok THEN failed(config_file)
        \* a list: config["mcpServers"] = {} raises TypeError
        ELSE IF parsed.root /= "object" THEN failed(config_file)
        \* null: `in` raises TypeError; []: the item assignment raises it
        ELSE IF servers.kind /= "object" THEN failed(config_file)
        ELSE IF project_name \in DOMAIN servers.map
          THEN Returned(FALSE, "already exists", TRUE, config_file)
        ELSE IF io = "open_error" THEN failed(config_file)
        ELSE IF io = "write_error" THEN failed(File(Text("empty", EmptyMap)))
        ELSE Returned(TRUE, "Added", TRUE, File(dumps(config)))

(* One call, recorded in calls. *)
Register(project_name, proj_path) ==
    \E io \in IO :
        LET r == update_claude_config(project_name, proj_path, io)
        IN  /\ config_file' = r.file
            /\ calls' = Append(calls, [name |-> project_name, path |-> proj_path,
                                       io |-> io, before |-> config_file,
                                       after |-> r.file, result |-> r.result,
                                       msg |-> r.msg, read |-> r.read])

(***************************************************************************)
(* create_project(path, name, use_claude), one action per step.            *)
(***************************************************************************)
(* line 106: path.mkdir(parents=True, exist_ok=True); an OSError is not caught. *)
MakeDir ==
    /\ pc = "mkdir"
    /\ steps' = Append(steps, "mkdir")
    /\ \E ok \in BOOLEAN :
         IF ok THEN disk' = [disk EXCEPT !.dir = TRUE] /\ Goto("init")
         ELSE disk' = disk /\ Raise("OSError")
    /\ UNCHANGED <<cliVars, uvVars, nameVars, project_path, summary, claudeEnv, claudeVars>>

(* A create_project that goes on to uv add when uv init fails. *)
UvInit_GoesOn ==
    /\ pc = "init"
    /\ steps' = Append(steps, "init")
    /\ \E ok \in BOOLEAN :
         IF ok THEN disk' = [disk EXCEPT !.init = TRUE] /\ Goto("add")
         ELSE disk' = disk /\ Goto("add")
    /\ UNCHANGED <<cliVars, uvVars, nameVars, project_path, summary, claudeEnv, claudeVars>>

(* lines 108-114: uv init; CalledProcessError ends the run with 1. *)
UvInit ==
    /\ pc = "init"
    /\ steps' = Append(steps, "init")
    /\ \E ok \in BOOLEAN :
         IF ok THEN disk' = [disk EXCEPT !.init = TRUE] /\ Goto("add")
         ELSE disk' = disk /\ Exit(1)
    /\ UNCHANGED <<cliVars, uvVars, nameVars, project_path, summary, claudeEnv, claudeVars>>

(* lines 117-121: uv add mcp; CalledProcessError ends the run with 1. *)
UvAdd ==
    /\ pc = "add"
    /\ steps' = Append(steps, "add")
    /\ \E ok \in BOOLEAN :
         IF ok THEN disk' = [disk EXCEPT !.mcp = TRUE] /\ Goto("template")
         ELSE disk' = disk /\ Exit(1)
    /\ UNCHANGED <<cliVars, uvVars, nameVars, project_path, summary, claudeEnv, claudeVars>>

(* line 123, copy_template: no src/*/__init__.py ends the run with 1; so   *)
(* does a copytree that raises, and it may have copied some files by then. *)
copy_template ==
    /\ pc = "template"
    /\ steps' = Append(steps, "template")
    /\ \E found \in BOOLEAN, copied \in BOOLEAN :
         IF ~found THEN disk' = disk /\ Exit(1)
         ELSE IF ~copied THEN disk' = [disk EXCEPT !.template = "partial"] /\ Exit(1)
         ELSE disk' = [disk EXCEPT !.template = "full"] /\ Goto("claude")
    /\ UNCHANGED <<cliVars, uvVars, nameVars, project_path, summary, claudeEnv, claudeVars>>

(* lines 126-127: the registration, when enabled, detected and accepted. *)
OfferClaude ==
    /\ pc = "claude"
    /\ IF claudeapp /\ has_claude_app
         THEN \E accept \in BOOLEAN :
                IF accept
                  THEN /\ confirmed' = "yes"
                       /\ Register(name, project_path)
                       /\ steps' = Append(steps, "register")
                  ELSE confirmed' = "no" /\ UNCHANGED <<config_file, calls, steps>>
         ELSE UNCHANGED <<claudeVars, steps>>
    /\ Goto("summary")
    /\ UNCHANGED <<cliVars, uvVars, nameVars, project_path, disk, summary, claudeEnv>>

(* lines 129-133 and main's return 0: path.relative_to(Path.cwd()) raises  *)
(* ValueError when the path is not under the working directory.            *)
Summary ==
    /\ pc = "summary"
    /\ steps' = Append(steps, "summary")
    /\ IF relative_to_ok(project_path, Cwd)
         THEN summary' = TRUE /\ Exit(0)
         ELSE summary' = FALSE /\ Raise("ValueError")
    /\ UNCHANGED <<cliVars, uvVars, nameVars, project_path, disk, claudeEnv, claudeVars>>

(* The versions a whole run of main meets: too old, the minimum, newer. *)
RunVersions == {<<0, 4, 9>>, <<0, 4, 10>>}

Next ==
    \/ ensure_uv_installed(UvOutcomes(RunVersions))
    \/ ProvideName
    \/ ValidateName
    \/ ResolvePath
    \/ MakeDir
    \/ UvInit
    \/ UvAdd
    \/ copy_template
    \/ OfferClaude
    \/ Summary

Spec == Init /\ [][Next]_vars

(***************************************************************************)
(* check_package_name on every name of Names: main from line 179, with     *)
(* --name given.                                                           *)
(***************************************************************************)
InitName ==
    \E n \in Names :
        Start("validate", Arg(n), NoArg(Cwd), TRUE, MIN_UV_VERSION, n, "linux", FALSE, NoFile)

NextName == ValidateName

SpecName == InitName /\ [][NextName]_vars

(***************************************************************************)
(* check_uv_version and ensure_uv_installed on every reported version and  *)
(* every minimum version of Versions.                                      *)
(***************************************************************************)
InitVersion ==
    \E mv \in Versions :
        Start("start", NoArg(<<>>), NoArg(Cwd), TRUE, mv, <<>>, "linux", FALSE, NoFile)

NextVersion == ensure_uv_installed(UvOutcomes(Versions))

SpecVersion == InitVersion /\ [][NextVersion]_vars

(***************************************************************************)
(* update_claude_config called up to MaxCalls times in a row, on every     *)
(* platform and config file of ConfigFiles.                                *)
(***************************************************************************)
RegNames == {<<"a">>, <<"b">>}
RegPaths == {[abs |-> TRUE, parts |-> << <<"h">>, <<"p">> >>],
             [abs |-> FALSE, parts |-> << <<"p">> >>]}

InitConfig ==
    \E pf \in Platforms, cd \in BOOLEAN, cf \in ConfigFiles({<<"a">>, <<"o">>}) :
        Start("config", NoArg(<<>>), NoArg(Cwd), TRUE, MIN_UV_VERSION, <<>>, pf, cd, cf)

Call ==
    /\ pc = "config"
    /\ Len(calls) < MaxCalls
    /\ \E n \in RegNames, p \in RegPaths : Register(n, p)
    /\ UNCHANGED <<pc, status, raised, cliVars, uvVars, nameVars, project_path, disk,
                   steps, summary, claudeEnv, confirmed>>

NextConfig == Call

SpecConfig == InitConfig /\ [][NextConfig]_vars

(***************************************************************************)
(* Vocabulary of the properties.                                           *)
(***************************************************************************)
Started(step) == \E i \in 1..Len(steps) : steps[i] = step
LastStep == IF steps = <<>> THEN "none" ELSE steps[Len(steps)]
Exited == pc = "exited"
NameRejected == Started("validate") /\ ~nameCheck.ok
NameAccepted == Started("validate") /\ nameCheck.ok
TemplateInstalled == disk.template = "full"
Done == Exited /\ summary

NoSideEffect ==
    /\ disk = NoDisk
    /\ config_file = original
    /\ calls = <<>>
    /\ \A op \in {"mkdir", "init", "add", "template", "register"} : ~Started(op)

C2_NoEffectBeforeAccept ==
    /\ ~NoSideEffect => NameAccepted
    /\ (Exited /\ NameRejected) => NoSideEffect

(* A run with a rejected name has ended. *)
C2_Witness == Exited /\ NameRejected /\ NoSideEffect /\ original.exists

(***************************************************************************)
(* C3.  Every call of update_claude_config that returned False left the    *)
(* file as it was (so the file changes only in calls that return True),    *)
(* and a second registration of a name returns False and changes nothing.  *)
(***************************************************************************)
C3_FalseLeavesFile ==
    /\ \A i \in 1..Len(calls) : ~calls[i].result => calls[i].after = calls[i].before
    /\ \A i \in 1..Len(calls) - 1 :
          (calls[i].result /\ calls[i + 1].name = calls[i].name)
              => ~calls[i + 1].result /\ calls[i + 1].after = calls[i + 1].before

(***************************************************************************)
(* C4.  The file as json.loads reads it.                                   *)
(***************************************************************************)
IsObjectFile(file) == file.exists /\ loads(file.text).ok /\ loads(file.text).root = "object"
Root(file) == loads(file.text).obj
HasServers(file) == "mcpServers" \in DOMAIN Root(file)
ServersMap(file) == IF HasServers(file) THEN Root(file)["mcpServers"].map ELSE EmptyMap
IsKeyOfServers(n, file) ==
    HasServers(file) /\ Root(file)["mcpServers"].kind = "object" /\ n \in DOMAIN ServersMap(file)

(* after is before with one more mcpServers entry, the one for the call. *)
AddsOneEntry(c) ==
    /\ IsObjectFile(c.after)
    /\ DOMAIN Root(c.after) = DOMAIN Root(c.before) \cup {"mcpServers"}
    /\ \A k \in DOMAIN Root(c.before) \ {"mcpServers"} : Root(c.after)[k] = Root(c.before)[k]
    /\ Root(c.after)["mcpServers"].kind = "object"
    /\ DOMAIN ServersMap(c.after) = DOMAIN ServersMap(c.before) \cup {c.name}
    /\ c.name \notin DOMAIN ServersMap(c.before)
    /\ \A n \in DOMAIN ServersMap(c.before) : ServersMap(c.after)[n] = ServersMap(c.before)[n]
    /\ ServersMap(c.after)[c.name] =
          [command |-> "uv",
           args |-> << <<"--directory">>, str(c.path), <<"run">>, c.name >>]

(* Nothing of the file the run began with is missing or changed. *)
KeepsOriginal ==
    /\ IsObjectFile(config_file)
    /\ \A k \in DOMAIN Root(original) \ {"mcpServers"} :
          k \in DOMAIN Root(config_file) /\ Root(config_file)[k] = Root(original)[k]
    /\ \A n \in DOMAIN ServersMap(original) :
          n \in DOMAIN ServersMap(config_file) /\ ServersMap(config_file)[n] = ServersMap(original)[n]
    /\ Cardinality(DOMAIN ServersMap(config_file)) =
          Cardinality(DOMAIN ServersMap(original)) + Len(calls)

(* C4 as claimed, for calls that meet no I/O error: on every config file   *)
(* that holds a JSON object in which projectName is not a key of           *)
(* mcpServers, the call returns True and adds exactly the one entry.       *)
C4_AsClaimed ==
    \A i \in 1..Len(calls) :
        (get_claude_config_path /\ IsObjectFile(calls[i].before)
            /\ ~IsKeyOfServers(calls[i].name, calls[i].before)
            /\ calls[i].io = "ok")
        => calls[i].result /\ AddsOneEntry(calls[i])

(***************************************************************************)
(* C4, amended.  On a config file that holds a JSON object whose           *)
(* mcpServers is absent or an object without projectName, a call that      *)
(* meets no I/O error returns True; every call that returns True leaves    *)
(* the file with all it held plus exactly the one new entry; and after     *)
(* calls that all returned True nothing of the original file is missing    *)
(* or changed.                                                             *)
(***************************************************************************)
C4_AddsOneEntry ==
    /\ \A i \in 1..Len(calls) :
          (get_claude_config_path /\ IsObjectFile(calls[i].before)
              /\ (HasServers(calls[i].before) => Root(calls[i].before)["mcpServers"].kind = "object")
              /\ calls[i].name \notin DOMAIN ServersMap(calls[i].before)
              /\ calls[i].io = "ok")
          => calls[i].result
    /\ \A i \in 1..Len(calls) : calls[i].result => AddsOneEntry(calls[i])
    /\ (calls /= <<>> /\ \A i \in 1..Len(calls) : calls[i].result) => KeepsOriginal

(* Two calls returned True on a file that held a theme and another entry. *)
C4_Witness ==
    /\ Len(calls) = 2
    /\ \A i \in 1..Len(calls) : calls[i].result
    /\ "theme" \in DOMAIN Root(original)
    /\ DOMAIN ServersMap(original) /= {}

(***************************************************************************)
(* C5.  Once the template is installed the run ends Done with status 0,    *)
(* whatever the registration did.                                          *)
(***************************************************************************)
C5_DoneAfterTemplate ==
    (Exited /\ TemplateInstalled) => Done /\ status = 0

(***************************************************************************)
(* C6.  The operations start in the order version check, name validation,  *)
(* mkdir, uv init, uv add, template copy, registration (optional),         *)
(* summary, each at most once; a failed uv init, uv add or template copy   *)
(* ends the run there with status 1, and the directory stays.              *)
(***************************************************************************)
Order == <<"version", "validate", "mkdir", "init", "add", "template", "register", "summary">>
OrderNoRegister == <<"version", "validate", "mkdir", "init", "add", "template", "summary">>

FailedAt(step) ==
    /\ Exited
    /\ status = 1
    /\ LastStep = step
    /\ ~summary
    /\ calls = <<>>
    /\ disk.dir

C6_Order ==
    /\ IsPrefix(steps, Order) \/ IsPrefix(steps, OrderNoRegister)
    /\ (Started("init") /\ ~disk.init) => FailedAt("init") /\ ~disk.mcp /\ disk.template = "none"
    /\ (Started("add") /\ ~disk.mcp) => FailedAt("add") /\ disk.template = "none"
    /\ (Started("template") /\ ~TemplateInstalled) => FailedAt("template")

(* uv add failed: the run has ended and the directory is still there. *)
C6_Witness == Started("add") /\ ~disk.mcp /\ Exited /\ disk.dir /\ disk.init

(***************************************************************************)
(* C7.  update_claude_config is called only when --claudeapp is on, the    *)
(* config directory is detected and the user said yes; otherwise the       *)
(* config file is neither read nor written, and the run ends Done with     *)
(* status 0.                                                               *)
(***************************************************************************)
C7_RegisterOnlyIfAccepted ==
    /\ calls /= <<>> => claudeapp /\ has_claude_app /\ confirmed = "yes"
    /\ (Exited /\ TemplateInstalled /\ ~(claudeapp /\ has_claude_app /\ confirmed = "yes"))
          => /\ calls = <<>>
             /\ config_file = original
             /\ status = 0
             /\ summary

(***************************************************************************)
(* C8 as claimed: a run that ends at a rejected name was given an empty    *)
(* name on the command line; any other rejected name is asked for again.   *)
(***************************************************************************)
C8_AsClaimed ==
    (Exited /\ NameRejected) => (name = <<>> /\ argName.given)

(***************************************************************************)
(* C8, amended.  main never asks again: the name is asked for at most      *)
(* once, and only when --name is absent; a rejected name, empty or not,    *)
(* from --name or from the prompt, ends the run at once with status 1.     *)
(***************************************************************************)
C8_RejectedNameAborts ==
    /\ prompts <= 1
    /\ prompts = 1 => ~argName.given
    /\ NameRejected => Exited /\ status = 1 /\ LastStep = "validate"

(* A name typed at the prompt was rejected. *)
C8_Witness == NameRejected /\ prompts = 1 /\ name /= <<>> /\ Exited

(***************************************************************************)
(* C9.  The four rules of the name check.                                  *)
(***************************************************************************)
IsWhitespace(c) == c \in {Space, Tab}
NonEmpty(n) == Len(n) > 0
NoWhitespace(n) == \A i \in 1..Len(n) : ~IsWhitespace(n[i])
NoSpace(n) == \A i \in 1..Len(n) : n[i] /= Space
OnlyAllowed(n) == \A i \in 1..Len(n) : n[i] \in Letters \cup DigitChars \cup Marks
EdgesOk(n) == Len(n) > 0 => n[1] \notin Marks /\ n[Len(n)] \notin Marks

(* The message of the first rule violated; rule2 tells whether the second *)
(* rule holds of n.                                                        *)
FirstFailure(n, rule2) ==
    IF ~NonEmpty(n) THEN "cannot be empty"
    ELSE IF ~rule2 THEN "must not contain spaces"
    ELSE IF ~OnlyAllowed(n)
      THEN "must consist of ASCII letters, digits, underscores, hyphens, and periods"
    ELSE IF ~EdgesOk(n)
      THEN "must not start or end with an underscore, hyphen, or period"
    ELSE "none"

Checked == nameCheck.msg /= "unchecked"

(* C9 as claimed: the second rule is "no whitespace", and the failure      *)
(* reported is the first rule violated.                                    *)
C9_AsClaimed ==
    Checked =>
        /\ nameCheck.ok <=> (NonEmpty(name) /\ NoWhitespace(name) /\ OnlyAllowed(name) /\ EdgesOk(name))
        /\ nameCheck.msg = FirstFailure(name, NoWhitespace(name))

(***************************************************************************)
(* C9, amended.  check_package_name returns True exactly on the names      *)
(* that are non-empty, without whitespace, made of ASCII letters, digits,  *)
(* underscore, hyphen and period, and that neither start nor end with      *)
(* one of these three marks; the failure reported is the first violated    *)
(* of: non-empty, no space character, allowed characters only, edges.      *)
(* Whitespace other than a space is reported by the third rule.            *)
(***************************************************************************)
C9_NameRules ==
    Checked =>
        /\ nameCheck.ok <=> (NonEmpty(name) /\ NoWhitespace(name) /\ OnlyAllowed(name) /\ EdgesOk(name))
        /\ nameCheck.msg = FirstFailure(name, NoSpace(name))
        /\ name \in {<<"a", "-", "b">>, <<"a", "_", "b">>, <<"a", ".", "1">>} => nameCheck.ok
        /\ name \in {<<"-", "a">>, <<"a", "-">>, <<"a", " ", "b">>, <<>>} => ~nameCheck.ok

(* A name that ends with a hyphen was checked. *)
C9_Witness == Checked /\ name = <<"a", "b", "-">> /\ ~nameCheck.ok

(***************************************************************************)
(* C10.  When uv reports major.minor.patch, check_uv_version returns what  *)
(* uv reported exactly when that triple is at least the minimum, ordered   *)
(* by major, then minor, then patch; it returns None when uv is not found  *)
(* or its output does not match; and whenever the result is None the run   *)
(* has ended with status 1.                                                *)
(***************************************************************************)
AtLeast(v, m) ==
    \/ v[1] > m[1]
    \/ v[1] = m[1] /\ v[2] > m[2]
    \/ v[1] = m[1] /\ v[2] = m[2] /\ v[3] >= m[3]

C10_VersionOrder ==
    Started("version") =>
        /\ (uv.kind = "ok" /\ uv.matches) =>
              /\ uvResult.present <=> AtLeast(uv.ver, min_uv_version)
              /\ uvResult.present => uvResult.text = uv.ver
        /\ (uv.kind = "notfound" \/ ~uv.matches) => ~uvResult.present
        /\ ~uvResult.present => Exited /\ status = 1
        /\ uvResult.present => ~Exited
        /\ (min_uv_version = <<0, 4, 10>> /\ uv.kind = "ok" /\ uv.matches) =>
              /\ uv.ver = <<0, 4, 9>> => ~uvResult.present
              /\ uv.ver \in {<<0, 4, 10>>, <<0, 5, 0>>} => uvResult.present

(* uv reported exactly the minimum 0.4.10 and the run went on. *)
C10_Witness ==
    /\ Started("version")
    /\ min_uv_version = <<0, 4, 10>>
    /\ uv.kind = "ok" /\ uv.matches /\ uv.ver = <<0, 4, 10>>
    /\ uvResult.present
    /\ pc = "name"

=============================================================================
